---- MODULE Spec2Model ----
(***************************************************************************)
(* State-machine model of the ai-prof retrieval pipeline:                  *)
(*   - the ingest scripts' upsert_doc (10_scrape_site, 20_transcribe_audio,*)
(*     30_ingest_pdfs_epubs),                                              *)
(*   - the indexer 40_chunk_embed_load (split_into_chunks, main,           *)
(*     upsert_chunks),                                                     *)
(*   - the retriever (maintenance.search / app.vector_search),             *)
(*   - the chat endpoint of adyai/app.py.                                  *)
(* Texts are sequences of one-character strings.                           *)
(***************************************************************************)
EXTENDS Integers, Sequences, FiniteSets, TLC

VARIABLES
    \* the chunker applied to one input
    text, target_tokens, overlap, out, cpc,
    \* the raw sources on disk and on the site, the Document Store (zen_docs, in
    \* creation order) and the processed text files
    rawSources, docs, files,
    \* the Chunk Store: the committed rows of zen_chunks, and the rows the
    \* indexer's open transaction has written and not committed
    chunks, pending,
    \* one indexer process (main of 40_chunk_embed_load): its position, its
    \* locals, the runs started, each run's exit, its standard output
    ipc, doc_ids, di, ichunks, iembs, idx, runs, exits, log,
    \* what the stores held when the current run started, and whether they
    \* held the same when the run before it started
    snapDocs, snapFiles, snapChunks, prevSame,
    \* the retriever: the last search call and the rows it returned
    searchQ, searchK, searchRes,
    \* the chat endpoint: whether claude_client is set, the handler's position,
    \* the request, the handler's locals, the model calls made, the response
    configured, chatpc, chatQ, chatK, results, mi, last_error, attempts, response,
    \* the environment of the deployment, the app's _embedding_model (<<>> for
    \* None), the models the app process has constructed, and the last call of
    \* get_embedding_vector
    env, embedding_model, constructed, lastEmbed,
    \* a second indexer process on the same stores: its position, its locals and
    \* the rows of its open transaction
    peer

chunkVars == <<text, target_tokens, overlap, out, cpc>>
storeVars == <<rawSources, docs, files>>
indexVars == <<chunks, pending, ipc, doc_ids, di, ichunks, iembs, idx, runs, exits, log,
               snapDocs, snapFiles, snapChunks, prevSame>>
searchVars == <<searchQ, searchK, searchRes>>
chatVars == <<configured, chatpc, chatQ, chatK, results, mi, last_error, attempts, response>>
embedVars == <<env, embedding_model, constructed, lastEmbed>>
peerVars == <<peer>>
vars == <<chunkVars, storeVars, indexVars, searchVars, chatVars, embedVars, peerVars>>

----------------------------------------------------------------------------
(* Bounds of the model *)

MaxTextLen == 6
MaxTarget == 3
MaxOverlap == 3
MaxRuns == 2
MaxK == 3
MaxContentChars == 310
MaxChunks == 3

----------------------------------------------------------------------------
(* Characters and str.split() *)

Whitespace == {" ", "\n"}
Letters == {"a", "b"}

Min(a, b) == IF a < b THEN a ELSE b
Max(a, b) == IF a > b THEN a ELSE b

\* str.split() with no separator: the maximal runs of non-whitespace characters,
\* in order.  Computed by halving (a run cut by the middle is glued back), so
\* that the evaluation depth stays logarithmic in the length of the text.
RECURSIVE Split(_)
Split(s) ==
    IF Len(s) = 0 THEN <<>>
    ELSE IF Len(s) = 1 THEN (IF s[1] \in Whitespace THEN <<>> ELSE <<s>>)
    ELSE LET mid == Len(s) \div 2
             l == Split(SubSeq(s, 1, mid))
             r == Split(SubSeq(s, mid + 1, Len(s)))
         IN  IF s[mid] \notin Whitespace /\ s[mid + 1] \notin Whitespace
             THEN SubSeq(l, 1, Len(l) - 1) \o <<l[Len(l)] \o r[1]>> \o Tail(r)
             ELSE l \o r

\* " ".join(ws), by halving as well
RECURSIVE Join(_)
Join(ws) ==
    IF Len(ws) = 0 THEN <<>>
    ELSE IF Len(ws) = 1 THEN ws[1]
    ELSE LET mid == Len(ws) \div 2
         IN  Join(SubSeq(ws, 1, mid)) \o <<" ">> \o Join(SubSeq(ws, mid + 1, Len(ws)))

\* words[i:j] of Python, 0-based, clipped to the sequence
Slice(ws, i, j) == SubSeq(ws, i + 1, Min(j, Len(ws)))

RECURSIVE ChunkLoop(_, _, _, _, _)
\* for i in range(i, len(words), step): append the non-empty joined window
ChunkLoop(words, i, approx, step, acc) ==
    IF i >= Len(words) THEN acc
    ELSE LET chunk == Join(Slice(words, i, i + approx))
         IN  ChunkLoop(words, i + step, approx, step,
                       IF Len(chunk) > 0 THEN Append(acc, chunk) ELSE acc)

\* the chunker with the overlap forgotten: windows advance by a whole window
split_into_chunks_NoOverlap(t, target, ov) ==
    ChunkLoop(Split(t), 0, target, target, <<>>)

\* the chunker that always advances by one word
split_into_chunks_StepOne(t, target, ov) ==
    ChunkLoop(Split(t), 0, target, 1, <<>>)

\* the chunker that keeps the full windows only
split_into_chunks_FullOnly(t, target, ov) ==
    SelectSeq(ChunkLoop(Split(t), 0, target, Max(1, target - ov), <<>>),
              LAMBDA c : Len(Split(c)) = target)

split_into_chunks(t, target, ov) ==
    LET words == Split(t)
        approx == target
        step == Max(1, approx - ov)
    IN  ChunkLoop(words, 0, approx, step, <<>>)

----------------------------------------------------------------------------
(* Program constants *)

MinWebChars == 400
MinBookChars == 500
MinIndexChars == 400
DefaultTargetTokens == 350
DefaultOverlap == 40

----------------------------------------------------------------------------
(* Texts and raw sources of the model *)

\* a character utf-8 cannot encode (a lone surrogate)
Surrogate == "<DC80>"
None == "None"
\* no row: what fetchone() gives when nothing matches (uuid values start at 1)
NoId == 0

\* one-letter words separated by single spaces: n characters, (n + 1) \div 2 words
Pattern(n) ==
    [p \in 1..n |-> IF p % 2 = 0 THEN " " ELSE IF (p \div 2) % 3 = 0 THEN "b" ELSE "a"]

TextShort == Pattern(5)
TextMid == Pattern(449)
TextLong == Pattern(719)
TextBlank == [p \in 1..500 |-> "\n"]
TextMidPadded == TextMid \o <<" ", "\n">>
TextMidSurrogate == SubSeq(TextMid, 1, 100) \o <<Surrogate>> \o SubSeq(TextMid, 101, 449)

SrcWebMid == [kind |-> "web", name |-> "u1", title |-> "U1", text |-> TextMid]
SrcWebShort == [kind |-> "web", name |-> "u2", title |-> "U2", text |-> TextShort]
SrcWebSurrogate == [kind |-> "web", name |-> "u3", title |-> "U3", text |-> TextMidSurrogate]
SrcAudioMid == [kind |-> "audio", name |-> "a1.mp3", title |-> "a1", text |-> TextMidPadded]
SrcAudioShort == [kind |-> "audio", name |-> "a2.mp3", title |-> "a2", text |-> TextShort]
SrcPdfLong == [kind |-> "pdf", name |-> "p1.pdf", title |-> "p1", text |-> TextLong]
SrcPdfBlank == [kind |-> "pdf", name |-> "p2.pdf", title |-> "p2", text |-> TextBlank]
SrcEpubLong == [kind |-> "epub", name |-> "e1.epub", title |-> "e1", text |-> TextLong]

SourcesPipeline == {SrcWebMid, SrcPdfLong, SrcAudioShort}
SourcesAll == {SrcWebMid, SrcWebShort, SrcWebSurrogate, SrcAudioMid, SrcAudioShort,
               SrcPdfLong, SrcPdfBlank, SrcEpubLong}

----------------------------------------------------------------------------
(* The Document Store: upsert_doc of the three ingest scripts *)

\* s.encode("utf-8", "ignore"): the characters utf-8 cannot encode are dropped
Utf8Ignore(s) == SelectSeq(s, LAMBDA c : c # Surrogate)

\* hashlib.sha1(...).hexdigest(); the digest is taken to be collision-free and
\* is written as the bytes it digests
sha1(s) == Utf8Ignore(s)

\* uuid.uuid4(): a value no row in sight carries
FreshId(used) == CHOOSE n \in 1..(Cardinality(used) + 1) : n \notin used /\ \A m \in 1..(n - 1) : m \in used

DocIds(ds) == {ds[i].id : i \in 1..Len(ds)}

\* SELECT id FROM zen_docs WHERE hash=%s; fetchone()
SelectIdByHash(ds, h) ==
    LET hits == {i \in 1..Len(ds) : ds[i].hash = h}
    IN  IF hits = {} THEN NoId ELSE ds[CHOOSE i \in hits : \A j \in hits : i <= j].id

upsert_doc_web(ds, source_url, title, content) ==
    LET h == sha1(content)
        row == SelectIdByHash(ds, h)
        doc_id == FreshId(DocIds(ds))
    IN  IF row # NoId THEN [docs |-> ds, id |-> row]
        ELSE [docs |-> Append(ds, [id |-> doc_id, source_type |-> "web", title |-> title,
                                   author |-> "Adyashanti", source_url |-> source_url,
                                   source_path |-> None, published_at |-> None, hash |-> h]),
              id |-> doc_id]

\* the audio script's upsert_doc without the look-up of the hash
upsert_doc_audio_NoLookup(ds, title, source_path, transcript_text) ==
    LET doc_id == FreshId(DocIds(ds))
    IN  [docs |-> Append(ds, [id |-> doc_id, source_type |-> "audio", title |-> title,
                              author |-> "Adyashanti", source_url |-> None,
                              source_path |-> source_path, published_at |-> None,
                              hash |-> sha1(transcript_text)]),
         id |-> doc_id]

upsert_doc_audio(ds, title, source_path, transcript_text) ==
    LET content_hash == sha1(transcript_text)
        row == SelectIdByHash(ds, content_hash)
        doc_id == FreshId(DocIds(ds))
    IN  IF row # NoId THEN [docs |-> ds, id |-> row]
        ELSE [docs |-> Append(ds, [id |-> doc_id, source_type |-> "audio", title |-> title,
                                   author |-> "Adyashanti", source_url |-> None,
                                   source_path |-> source_path, published_at |-> None,
                                   hash |-> content_hash]),
              id |-> doc_id]

upsert_doc_book(ds, title, source_path, content, source_type) ==
    LET h == sha1(content)
        row == SelectIdByHash(ds, h)
        doc_id == FreshId(DocIds(ds))
    IN  IF row # NoId THEN [docs |-> ds, id |-> row]
        ELSE [docs |-> Append(ds, [id |-> doc_id, source_type |-> source_type, title |-> title,
                                   author |-> "Adyashanti", source_url |-> None,
                                   source_path |-> source_path, published_at |-> None,
                                   hash |-> h]),
              id |-> doc_id]

\* str.strip(): leading and trailing whitespace removed
Strip(s) ==
    IF \A p \in 1..Len(s) : s[p] \in Whitespace THEN <<>>
    ELSE SubSeq(s,
                CHOOSE p \in 1..Len(s) :
                    s[p] \notin Whitespace /\ \A q \in 1..(p - 1) : s[q] \in Whitespace,
                CHOOSE p \in 1..Len(s) :
                    s[p] \notin Whitespace /\ \A q \in (p + 1)..Len(s) : s[q] \in Whitespace)

\* open(path, "w").write(t) / Path.write_text(t): the file is created or
\* truncated first; encoding a lone surrogate raises and leaves it empty
WriteText(fs, dir, id, t) ==
    (<<dir, id>> :> (IF \E p \in 1..Len(t) : t[p] = Surrogate THEN <<>> ELSE t)) @@ fs

\* the stores after upsert_doc returned r and the text went to dir/{doc_id}.txt
Stored(fs, r, dir, content) == [docs |-> r.docs, files |-> WriteText(fs, dir, r.id, content)]

\* 10_scrape_site.crawl, one page: the stores it leaves
crawl(ds, fs, s) ==
    IF Len(s.text) = 0 \/ Len(s.text) < MinWebChars
    THEN [docs |-> ds, files |-> fs]
    ELSE Stored(fs, upsert_doc_web(ds, s.name, s.title, s.text), "web", s.text)

\* 20_transcribe_audio.main, one audio file
transcribe(ds, fs, s) ==
    LET t == Strip(s.text)
    IN  IF Len(t) = 0
        THEN [docs |-> ds, files |-> fs]
        ELSE Stored(fs, upsert_doc_audio(ds, s.title, s.name, t), "audio", t)

\* 30_ingest_pdfs_epubs.main, one pdf or epub
ingest_book(ds, fs, s) ==
    IF Len(s.text) < MinBookChars
    THEN [docs |-> ds, files |-> fs]
    ELSE Stored(fs, upsert_doc_book(ds, s.title, s.name, s.text, s.kind), "books", s.text)

IngestOne(ds, fs, s) ==
    IF s.kind = "web" THEN crawl(ds, fs, s)
    ELSE IF s.kind = "audio" THEN transcribe(ds, fs, s)
    ELSE ingest_book(ds, fs, s)

CrawlPage(s) ==
    /\ s \in rawSources
    /\ s.kind = "web"
    /\ docs' = crawl(docs, files, s).docs
    /\ files' = crawl(docs, files, s).files
    /\ UNCHANGED <<rawSources, chunkVars, indexVars, searchVars, chatVars, embedVars, peerVars>>

TranscribeAudio(s) ==
    /\ s \in rawSources
    /\ s.kind = "audio"
    /\ docs' = transcribe(docs, files, s).docs
    /\ files' = transcribe(docs, files, s).files
    /\ UNCHANGED <<rawSources, chunkVars, indexVars, searchVars, chatVars, embedVars, peerVars>>

IngestBook(s) ==
    /\ s \in rawSources
    /\ s.kind \in {"pdf", "epub"}
    /\ docs' = ingest_book(docs, files, s).docs
    /\ files' = ingest_book(docs, files, s).files
    /\ UNCHANGED <<rawSources, chunkVars, indexVars, searchVars, chatVars, embedVars, peerVars>>

----------------------------------------------------------------------------
(* The embedding capability: SentenceTransformer.encode *)

\* the length that stands for 1.0: a unit vector has norm UnitScale
UnitScale == 5

Directions ==
    << <<5, 0>>, <<4, 3>>, <<3, 4>>, <<0, 5>>, <<-3, 4>>, <<-4, 3>>, <<-5, 0>> >>

Dot(a, b) == a[1] * b[1] + a[2] * b[2]
ISqrt(n) == CHOOSE r \in 0..n : r * r = n
Norm(v) == ISqrt(Dot(v, v))

\* the model's raw output for a text: a direction and a magnitude that depend
\* on the text alone (the encoder is deterministic)
RawEncode(t) ==
    LET d == Directions[(Len(t) % Len(Directions)) + 1]
        m == 1 + ((Len(t) \div 100) % 3)
    IN  <<d[1] * m, d[2] * m>>

\* normalize_embeddings=True
Normalize(v) == <<(v[1] * UnitScale) \div Norm(v), (v[2] * UnitScale) \div Norm(v)>>

\* embed_texts with the normalisation left out
embed_texts_NoNormalize(texts) == [i \in 1..Len(texts) |-> RawEncode(texts[i])]

embed_texts(texts) == [i \in 1..Len(texts) |-> Normalize(RawEncode(texts[i]))]

----------------------------------------------------------------------------
(* The indexer: 40_chunk_embed_load *)

ProcessedDirs == <<"web", "audio", "books">>

RECURSIVE Reverse(_)
Reverse(q) == IF q = <<>> THEN <<>> ELSE Append(Reverse(Tail(q)), Head(q))

\* SELECT id FROM zen_docs ORDER BY created_at DESC
get_doc_ids(ds) == Reverse([i \in 1..Len(ds) |-> ds[i].id])

\* the gate that finds no document chunked
already_chunked_Never(cs, doc_id) == FALSE

\* SELECT 1 FROM zen_chunks WHERE doc_id=%s LIMIT 1, on the indexer's connection
already_chunked(cs, doc_id) == \E r \in cs : r.doc_id = doc_id

\* p.read_text() reached without the test p.exists()
FileExists_Always(fs, doc_id) == TRUE

FileExists(fs, doc_id) ==
    \E i \in 1..Len(ProcessedDirs) : <<ProcessedDirs[i], doc_id>> \in DOMAIN fs

load_text_for_id(fs, doc_id) ==
    LET found == {i \in 1..Len(ProcessedDirs) : <<ProcessedDirs[i], doc_id>> \in DOMAIN fs}
    IN  IF found = {} THEN <<>>
        ELSE fs[<<ProcessedDirs[CHOOSE i \in found : \A j \in found : i <= j], doc_id>>]

SameKey(r, w) == r.doc_id = w.doc_id /\ r.chunk_index = w.chunk_index

\* the rows a transaction that wrote `written` sees, and the table once it commits
Overlay(committed, written) ==
    {r \in committed : ~(\E w \in written : SameKey(r, w))} \cup written

\* the execute that on a conflict replaces the whole row by the new one
UpsertRow_Replace(seen, doc_id, i, content, emb) ==
    {[id |-> FreshId({r.id : r \in seen}), doc_id |-> doc_id, chunk_index |-> i,
      content |-> content, section |-> None, token_count |-> Len(Split(content)),
      embedding |-> emb, metadata |-> "{}"]}

\* one execute of upsert_chunks on the rows its transaction sees: INSERT, or on
\* a conflict on (doc_id, chunk_index) overwrite content and embedding; the
\* value is the row written
UpsertRow(seen, doc_id, i, content, emb) ==
    LET hit == {r \in seen : r.doc_id = doc_id /\ r.chunk_index = i}
    IN  IF hit = {}
        THEN {[id |-> FreshId({r.id : r \in seen}), doc_id |-> doc_id, chunk_index |-> i,
               content |-> content, section |-> None, token_count |-> Len(Split(content)),
               embedding |-> emb, metadata |-> "{}"]}
        ELSE {[r EXCEPT !.content = content, !.embedding = emb] : r \in hit}

\* the execute that numbers the chunks from 1
Execute_FromOne(committed, written, doc_id, i, content, emb) ==
    Overlay(written, UpsertRow(Overlay(committed, written), doc_id, i + 1, content, emb))

\* the rows of the open transaction after its next execute
Execute(committed, written, doc_id, i, content, emb) ==
    Overlay(written, UpsertRow(Overlay(committed, written), doc_id, i, content, emb))

\* each execute commits at once, as on an autocommit connection
Committed_Autocommit(committed, written) == Overlay(committed, written)

\* the committed rows after an execute of an open transaction: as they were
Committed(committed, written) == committed

RECURSIVE ExecuteAll(_, _, _, _, _, _)
ExecuteAll(committed, written, doc_id, cks, embs, i) ==
    IF i >= Len(cks) THEN written
    ELSE ExecuteAll(committed, Execute(committed, written, doc_id, i, cks[i + 1], embs[i + 1]),
                    doc_id, cks, embs, i + 1)

\* upsert_chunks from its first execute to its commit
upsert_chunks(committed, doc_id, cks, embs) ==
    Overlay(committed, ExecuteAll(committed, {}, doc_id, cks, embs, 0))

RECURSIVE MainLoop(_, _, _, _)
\* main, run to its end with no call raising: the Chunk Store it leaves
MainLoop(cs, fs, ids, i) ==
    IF i > Len(ids) THEN cs
    ELSE IF already_chunked(cs, ids[i]) THEN MainLoop(cs, fs, ids, i + 1)
    ELSE LET t == load_text_for_id(fs, ids[i])
             cks == split_into_chunks(t, DefaultTargetTokens, DefaultOverlap)
         IN  IF Len(t) < MinIndexChars THEN MainLoop(cs, fs, ids, i + 1)
             ELSE MainLoop(upsert_chunks(cs, ids[i], cks, embed_texts(cks)), fs, ids, i + 1)

\* the execute that waits for no other transaction
LockHeld_Never(other, doc_id, i) == FALSE

\* another open transaction has written the row (doc_id, i): the unique index
\* on (doc_id, chunk_index) makes the execute wait until that one ends
LockHeld(other, doc_id, i) == \E w \in other : w.doc_id = doc_id /\ w.chunk_index = i

CurDoc == doc_ids[di]

StartRun ==
    /\ ipc \in {"idle", "done", "aborted"}
    /\ runs < MaxRuns
    /\ runs' = runs + 1
    /\ doc_ids' = get_doc_ids(docs)
    /\ di' = 1
    /\ ipc' = "gate"
    /\ prevSame' = (runs >= 1 /\ docs = snapDocs /\ files = snapFiles)
    /\ snapDocs' = docs
    /\ snapFiles' = files
    /\ snapChunks' = chunks
    /\ UNCHANGED <<chunks, pending, ichunks, iembs, idx, exits, log>>
    /\ UNCHANGED <<chunkVars, storeVars, searchVars, chatVars, embedVars, peerVars>>

\* if already_chunked(conn, doc_id): continue
Gate ==
    /\ ipc = "gate"
    /\ di <= Len(doc_ids)
    /\ IF already_chunked(Overlay(chunks, pending), CurDoc)
       THEN di' = di + 1 /\ ipc' = "gate"
       ELSE di' = di /\ ipc' = "load"
    /\ UNCHANGED <<chunks, pending, doc_ids, ichunks, iembs, idx, runs, exits, log,
                   snapDocs, snapFiles, snapChunks, prevSame>>
    /\ UNCHANGED <<chunkVars, storeVars, searchVars, chatVars, embedVars, peerVars>>

\* text = load_text_for_id(doc_id); if len(text)<400: continue;
\* chunks = split_into_chunks(text)
Load ==
    /\ ipc = "load"
    /\ LET t == load_text_for_id(files, CurDoc)
       IN  IF Len(t) < MinIndexChars
           THEN di' = di + 1 /\ ipc' = "gate" /\ UNCHANGED ichunks
           ELSE /\ ichunks' = split_into_chunks(t, DefaultTargetTokens, DefaultOverlap)
                /\ di' = di
                /\ ipc' = "embed"
    /\ UNCHANGED <<chunks, pending, doc_ids, iembs, idx, runs, exits, log,
                   snapDocs, snapFiles, snapChunks, prevSame>>
    /\ UNCHANGED <<chunkVars, storeVars, searchVars, chatVars, embedVars, peerVars>>

\* embs = embed_texts(chunks)
Embed ==
    /\ ipc = "embed"
    /\ iembs' = embed_texts(ichunks)
    /\ idx' = 0
    /\ ipc' = "upsert"
    /\ UNCHANGED <<chunks, pending, doc_ids, di, ichunks, runs, exits, log,
                   snapDocs, snapFiles, snapChunks, prevSame>>
    /\ UNCHANGED <<chunkVars, storeVars, searchVars, chatVars, embedVars, peerVars>>

\* one pass of the loop of upsert_chunks: cur.execute(INSERT ... ON CONFLICT ...)
UpsertExecute ==
    /\ ipc = "upsert"
    /\ idx < Len(ichunks)
    /\ ~LockHeld(peer.pending, CurDoc, idx)
    /\ pending' = Execute(chunks, pending, CurDoc, idx, ichunks[idx + 1], iembs[idx + 1])
    /\ chunks' = Committed(chunks, pending')
    /\ idx' = idx + 1
    /\ UNCHANGED <<ipc, doc_ids, di, ichunks, iembs, runs, exits, log,
                   snapDocs, snapFiles, snapChunks, prevSame>>
    /\ UNCHANGED <<chunkVars, storeVars, searchVars, chatVars, embedVars, peerVars>>

\* conn.commit() at the end of upsert_chunks, and the print that follows it
Commit ==
    /\ ipc = "upsert"
    /\ idx = Len(ichunks)
    /\ chunks' = Overlay(chunks, pending)
    /\ pending' = {}
    /\ log' = Append(log, <<CurDoc, Len(ichunks)>>)
    /\ di' = di + 1
    /\ ipc' = "gate"
    /\ UNCHANGED <<doc_ids, ichunks, iembs, idx, runs, exits,
                   snapDocs, snapFiles, snapChunks, prevSame>>
    /\ UNCHANGED <<chunkVars, storeVars, searchVars, chatVars, embedVars, peerVars>>

\* the loop of main is over: the connection's block exits, the process returns
FinishRun ==
    /\ ipc = "gate"
    /\ di > Len(doc_ids)
    /\ ipc' = "done"
    /\ exits' = Append(exits, "ok")
    /\ UNCHANGED <<chunks, pending, doc_ids, di, ichunks, iembs, idx, runs, log,
                   snapDocs, snapFiles, snapChunks, prevSame>>
    /\ UNCHANGED <<chunkVars, storeVars, searchVars, chatVars, embedVars, peerVars>>

\* an exception leaves main (nothing in main catches one): the connection's
\* block rolls the open transaction back and the process ends with a traceback
Raised(call) ==
    /\ ipc' = "aborted"
    /\ pending' = {}
    /\ exits' = Append(exits, call)
    /\ UNCHANGED <<chunks, doc_ids, di, ichunks, iembs, idx, runs, log,
                   snapDocs, snapFiles, snapChunks, prevSame>>
    /\ UNCHANGED <<chunkVars, storeVars, searchVars, chatVars, embedVars, peerVars>>

\* p.read_text() raises on a file that exists and cannot be read
ReadTextRaises ==
    /\ ipc = "load"
    /\ FileExists(files, CurDoc)
    /\ Raised("read_text")

\* model.encode raises
EncodeRaises ==
    /\ ipc = "embed"
    /\ Raised("encode")

\* cur.execute or conn.commit raises in upsert_chunks
ExecuteRaises ==
    /\ ipc = "upsert"
    /\ Raised("execute")

----------------------------------------------------------------------------
(* A second indexer process on the same stores *)

\* the rows a commit leaves: the versions the transaction wrote replace the
\* rows they update, the rows it inserted are added
CommitRows(committed, written) ==
    {r \in committed : ~(\E w \in written : w.id = r.id)} \cup written

\* the peer's execute: as Execute, a row it inserts getting a uuid4 that no
\* row of either process has
PeerExecuteRows(committed, other, written, doc_id, i, content, emb) ==
    LET seen == Overlay(committed, written)
        row == UpsertRow(seen, doc_id, i, content, emb)
        used == {r.id : r \in committed \cup other \cup written}
    IN  Overlay(written,
                {IF \E r \in seen : r.id = w.id /\ SameKey(r, w)
                 THEN w ELSE [w EXCEPT !.id = FreshId(used)] : w \in row})

PeerDoc == peer.doc_ids[peer.di]

\* the second process starts: psycopg.connect, get_doc_ids
PeerStart ==
    /\ peer.ipc = "off"
    /\ peer' = [peer EXCEPT !.ipc = "gate", !.doc_ids = get_doc_ids(docs), !.di = 1]
    /\ UNCHANGED <<chunkVars, storeVars, indexVars, searchVars, chatVars, embedVars>>

\* if already_chunked(conn, doc_id): continue
PeerGate ==
    /\ peer.ipc = "gate"
    /\ peer.di <= Len(peer.doc_ids)
    /\ peer' = IF already_chunked(Overlay(chunks, peer.pending), PeerDoc)
               THEN [peer EXCEPT !.di = peer.di + 1]
               ELSE [peer EXCEPT !.ipc = "load"]
    /\ UNCHANGED <<chunkVars, storeVars, indexVars, searchVars, chatVars, embedVars>>

\* text = load_text_for_id(doc_id); if len(text)<400: continue;
\* chunks = split_into_chunks(text)
PeerLoad ==
    /\ peer.ipc = "load"
    /\ LET t == load_text_for_id(files, PeerDoc)
       IN  peer' = IF Len(t) < MinIndexChars
                   THEN [peer EXCEPT !.di = peer.di + 1, !.ipc = "gate"]
                   ELSE [peer EXCEPT !.ipc = "embed",
                                     !.ichunks = split_into_chunks(t, DefaultTargetTokens,
                                                                   DefaultOverlap)]
    /\ UNCHANGED <<chunkVars, storeVars, indexVars, searchVars, chatVars, embedVars>>

\* embs = embed_texts(chunks)
PeerEmbed ==
    /\ peer.ipc = "embed"
    /\ peer' = [peer EXCEPT !.ipc = "upsert", !.iembs = embed_texts(peer.ichunks), !.idx = 0]
    /\ UNCHANGED <<chunkVars, storeVars, indexVars, searchVars, chatVars, embedVars>>

\* one pass of the loop of upsert_chunks, once no other transaction holds the key
PeerUpsertExecute ==
    /\ peer.ipc = "upsert"
    /\ peer.idx < Len(peer.ichunks)
    /\ ~LockHeld(pending, PeerDoc, peer.idx)
    /\ peer' = [peer EXCEPT
                  !.pending = PeerExecuteRows(chunks, pending, peer.pending, PeerDoc, peer.idx,
                                              peer.ichunks[peer.idx + 1],
                                              peer.iembs[peer.idx + 1]),
                  !.idx = peer.idx + 1,
                  !.updates = IF \E r \in chunks : r.doc_id = PeerDoc /\ r.chunk_index = peer.idx
                              THEN peer.updates + 1 ELSE peer.updates]
    /\ UNCHANGED <<chunkVars, storeVars, indexVars, searchVars, chatVars, embedVars>>

\* conn.commit() at the end of upsert_chunks
PeerCommit ==
    /\ peer.ipc = "upsert"
    /\ peer.idx = Len(peer.ichunks)
    /\ chunks' = CommitRows(chunks, peer.pending)
    /\ peer' = [peer EXCEPT !.pending = {}, !.di = peer.di + 1, !.ipc = "gate"]
    /\ UNCHANGED <<pending, ipc, doc_ids, di, ichunks, iembs, idx, runs, exits, log,
                   snapDocs, snapFiles, snapChunks, prevSame>>
    /\ UNCHANGED <<chunkVars, storeVars, searchVars, chatVars, embedVars>>

\* the loop of main is over
PeerFinish ==
    /\ peer.ipc = "gate"
    /\ peer.di > Len(peer.doc_ids)
    /\ peer' = [peer EXCEPT !.ipc = "done"]
    /\ UNCHANGED <<chunkVars, storeVars, indexVars, searchVars, chatVars, embedVars>>

----------------------------------------------------------------------------
(* The retriever: maintenance.search and app.vector_search *)

Queries == {<<"b", " ", "a">>, <<"a", "b", " ", "b", "a", "?">>}

\* c.embedding <-> qv, squared (the squares are ordered as the distances are)
L2DistanceSq(e, qv) == (e[1] - qv[1]) * (e[1] - qv[1]) + (e[2] - qv[2]) * (e[2] - qv[2])

\* 1 - (c.embedding <=> qv): the cosine similarity, as <<numerator, denominator>>
Score(e, qv) == <<Dot(e, qv), Norm(e) * Norm(qv)>>

ScoreGE(x, y) == x[1] * y[2] >= y[1] * x[2]

\* FROM zen_chunks c JOIN zen_docs d ON d.id=c.doc_id
Joined(cs, ds) == {<<c, i>> \in cs \X (1..Len(ds)) : ds[i].id = c.doc_id}

ResultRow(ds, j, qv) ==
    [content |-> j[1].content, title |-> ds[j[2]].title, source_type |-> ds[j[2]].source_type,
     source_url |-> ds[j[2]].source_url, score |-> Score(j[1].embedding, qv)]

\* the joined rows in an order that ORDER BY c.embedding <-> qv allows (rows at
\* the same distance come in any order)
Ordered(js, qv) ==
    {f \in [1..Cardinality(js) -> js] :
        /\ \A a, b \in 1..Cardinality(js) : a # b => f[a] # f[b]
        /\ \A a, b \in 1..Cardinality(js) :
              a < b => L2DistanceSq(f[a][1].embedding, qv) <= L2DistanceSq(f[b][1].embedding, qv)}

\* the query without its LIMIT
SearchRows_NoLimit(cs, ds, qv, k) ==
    LET js == Joined(cs, ds)
    IN  {[i \in 1..Cardinality(js) |-> ResultRow(ds, f[i], qv)] : f \in Ordered(js, qv)}

\* the row sequences the query may return: ... ORDER BY ... LIMIT k
SearchRows(cs, ds, qv, k) ==
    LET js == Joined(cs, ds)
    IN  {[i \in 1..Min(k, Cardinality(js)) |-> ResultRow(ds, f[i], qv)] : f \in Ordered(js, qv)}

\* model.encode([q], normalize_embeddings=True)[0]
QueryVector(q) == Normalize(RawEncode(q))

\* maintenance.search(q, k): one statement on a connection of its own
Search(q, k) ==
    /\ searchRes' \in SearchRows(chunks, docs, QueryVector(q), k)
    /\ searchQ' = q
    /\ searchK' = k
    /\ UNCHANGED <<chunkVars, storeVars, indexVars, chatVars, embedVars, peerVars>>

----------------------------------------------------------------------------
(* The embedding capability: MODEL of 40_chunk_embed_load, EMBED_MODEL_NAME,  *)
(* get_embedding_model and get_embedding_vector of adyai/app.py              *)

MaxLoads == 2

IndexerDefaultModel == "sentence-transformers/all-MiniLM-L6-v2"
AppDefaultModel == "paraphrase-MiniLM-L3-v2"
IndexerShortName == "all-MiniLM-L6-v2"
ApiModel == "text-embedding-3-small"

\* the environments a deployment may give to the indexer and to the app (both
\* read the same .env): EMBED_MODEL unset or naming a model,
\* USE_API_EMBEDDINGS "true" or not, OPENAI_API_KEY set or not
Environments ==
    [EMBED_MODEL : {None, IndexerDefaultModel, IndexerShortName, AppDefaultModel},
     USE_API_EMBEDDINGS : BOOLEAN, OPENAI_API_KEY : BOOLEAN]

\* the deployment whose .env names the indexer's model and asks for no API
EnvShared ==
    [EMBED_MODEL |-> IndexerDefaultModel, USE_API_EMBEDDINGS |-> FALSE,
     OPENAI_API_KEY |-> FALSE]

\* os.getenv("EMBED_MODEL", default)
getenv(e, default) == IF e.EMBED_MODEL = None THEN default ELSE e.EMBED_MODEL

\* MODEL of the indexer
MODEL(e) == getenv(e, IndexerDefaultModel)

\* EMBED_MODEL_NAME of the app
EMBED_MODEL_NAME(e) == getenv(e, AppDefaultModel)

\* the vector space of an embedding: who computed it, with which model
Space(provider, name) == [provider |-> provider, model |-> name]

\* the space of the stored chunks: model = SentenceTransformer(MODEL)
IndexSpace(e) == Space("sentence-transformers", MODEL(e))

\* get_embedding_model that constructs the model at every call
get_embedding_model_NoCache(m, name, inst, ctor_ok) ==
    IF ctor_ok
    THEN [model |-> <<[name |-> name, instance |-> inst]>>, built |-> TRUE, raised |-> FALSE]
    ELSE [model |-> m, built |-> FALSE, raised |-> TRUE]

\* get_embedding_model(): m is _embedding_model (<<>> for None), inst the
\* object a construction would make, ctor_ok whether SentenceTransformer(...)
\* returns; the value holds _embedding_model after the call
get_embedding_model(m, name, inst, ctor_ok) ==
    IF m = <<>>
    THEN IF ctor_ok
         THEN [model |-> <<[name |-> name, instance |-> inst]>>, built |-> TRUE,
               raised |-> FALSE]
         ELSE [model |-> m, built |-> FALSE, raised |-> TRUE]
    ELSE [model |-> m, built |-> FALSE, raised |-> FALSE]

\* model = get_embedding_model(); return model.encode([text], ...)[0].tolist()
LocalVector(e, m, inst, ctor_ok) ==
    LET g == get_embedding_model(m, EMBED_MODEL_NAME(e), inst, ctor_ok)
    IN  [raised |-> g.raised,
         space |-> IF g.raised THEN <<>>
                   ELSE <<Space("sentence-transformers", g.model[1].name)>>,
         model |-> g.model, built |-> g.built, local |-> TRUE]

\* get_embedding_vector(text): api_ok tells whether the request to the API
\* returns an embedding
get_embedding_vector(e, m, inst, api_ok, ctor_ok) ==
    IF e.USE_API_EMBEDDINGS /\ e.OPENAI_API_KEY
    THEN IF api_ok
         THEN [raised |-> FALSE, space |-> <<Space("openai", ApiModel)>>,
               model |-> m, built |-> FALSE, local |-> FALSE]
         ELSE LocalVector(e, m, inst, ctor_ok)
    ELSE LocalVector(e, m, inst, ctor_ok)

\* query_vector = get_embedding_vector(query) in vector_search
EmbedQuery(q, api_ok, ctor_ok) ==
    LET v == get_embedding_vector(env, embedding_model, constructed + 1, api_ok, ctor_ok)
    IN  /\ v.built => constructed < MaxLoads
        /\ embedding_model' = v.model
        /\ constructed' = IF v.built THEN constructed + 1 ELSE constructed
        /\ lastEmbed' = <<[query |-> q, raised |-> v.raised, space |-> v.space,
                           built |-> v.built, local |-> v.local,
                           before |-> embedding_model]>>
        /\ env' = env

\* one call of get_embedding_vector, by itself
GetEmbeddingVector(q, api_ok, ctor_ok) ==
    /\ EmbedQuery(q, api_ok, ctor_ok)
    /\ UNCHANGED <<chunkVars, storeVars, indexVars, searchVars, chatVars, peerVars>>

----------------------------------------------------------------------------
(* The chat endpoint: chat of adyai/app.py *)

SourceMaxChars == 300
PassageMaxChars == 200
TopPassages == 3

\* the list with the lower-cost model first
Models_SecondaryFirst == <<"claude-3-haiku-20240307", "claude-sonnet-4-20250514">>

Models == <<"claude-sonnet-4-20250514", "claude-3-haiku-20240307">>

\* how a call of claude_client.messages.create ends: it returns, or it raises
\* anthropic.OverloadedError, anthropic.NotFoundError or another exception
Outcomes == {"ok", "overloaded", "not_found", "other"}

NoContextMessage ==
    <<"I couldn't find any relevant teachings to answer your question. Please try rephrasing or ask about a different topic.">>

Ellipsis == <<".", ".", ".">>

\* the source cut as soon as the content has SourceMaxChars characters
Source_CutFrom300(r) ==
    [title |-> IF r.title \in {None, ""} THEN "Untitled" ELSE r.title,
     content |-> IF Len(r.content) >= SourceMaxChars
                 THEN SubSeq(r.content, 1, SourceMaxChars) \o Ellipsis
                 ELSE r.content,
     score |-> r.score, source_type |-> r.source_type, source_url |-> r.source_url]

\* Source(title=..., content=..., score=..., source_type=..., source_url=...)
Source(r) ==
    [title |-> IF r.title \in {None, ""} THEN "Untitled" ELSE r.title,
     content |-> IF Len(r.content) > SourceMaxChars
                 THEN SubSeq(r.content, 1, SourceMaxChars) \o Ellipsis
                 ELSE r.content,
     score |-> r.score, source_type |-> r.source_type, source_url |-> r.source_url]

\* the sources with the rows of no positive score left out
Sources_AboveZero(rs) ==
    SelectSeq([i \in 1..Len(rs) |-> Source(rs[i])], LAMBDA x : x.score[1] > 0)

Sources(rs) == [i \in 1..Len(rs) |-> Source(rs[i])]

RECURSIVE JoinWith(_, _)
\* sep.join(parts)
JoinWith(sep, parts) ==
    IF parts = <<>> THEN <<>>
    ELSE IF Len(parts) = 1 THEN parts[1]
    ELSE parts[1] \o sep \o JoinWith(sep, Tail(parts))

\* the response text with the first passage alone
PassagesText_FirstOnly(rs) ==
    <<"Anthropic API key not configured. Here are the most relevant passages I found:\n\n">>
    \o <<"* ">> \o SubSeq(rs[1].content, 1, Min(PassageMaxChars, Len(rs[1].content))) \o Ellipsis

\* the response text when claude_client is None
PassagesText(rs) ==
    <<"Anthropic API key not configured. Here are the most relevant passages I found:\n\n">>
    \o JoinWith(<<"\n\n">>,
                [i \in 1..Min(TopPassages, Len(rs)) |->
                    <<"* ">> \o SubSeq(rs[i].content, 1, Min(PassageMaxChars, Len(rs[i].content)))
                    \o Ellipsis])

\* ChatResponse(response=..., sources=..., context_used=...)
ChatResponse(t, srcs, used) ==
    [status |-> 200, response |-> t, sources |-> srcs, context_used |-> used, detail |-> <<>>]

\* the except clause at the request boundary: HTTPException(status_code=500, ...)
HTTPError(e) ==
    [status |-> 500, response |-> <<>>, sources |-> <<>>, context_used |-> FALSE,
     detail |-> <<"Error processing chat request: ">> \o e]

\* what the except clause of the model loop does with a failure of this class:
\* each of the three clauses records the error and continues with the next model
OnModelError(class) ==
    IF class = "overloaded" THEN "continue"
    ELSE IF class = "not_found" THEN "continue"
    ELSE "continue"

\* the value of a local of the handler that no assignment has reached
Unbound == <<[unbound |-> TRUE]>>

ChatIdle ==
    /\ chatpc = "idle"
    /\ chatQ = <<>>
    /\ chatK = 0
    /\ results = Unbound
    /\ mi = 1
    /\ last_error = None
    /\ attempts = <<>>
    /\ response = ChatResponse(<<>>, <<>>, FALSE)

\* the handler that looks at claude_client before it looks at the rows
AfterRetrieval_ClientFirst(rs, client) ==
    IF ~client THEN "passages"
    ELSE IF rs = <<>> THEN "no_context"
    ELSE "model"

\* the branch the handler takes once vector_search has returned its rows
AfterRetrieval(rs, client) ==
    IF rs = <<>> THEN "no_context"
    ELSE IF ~client THEN "passages"
    ELSE "model"

\* a request arrives; the handler runs up to its first model call, or to its return
ChatRetrieve(q, k) ==
    /\ chatpc \in {"idle", "responded"}
    /\ chatQ' = q
    /\ chatK' = k
    /\ results' \in SearchRows(chunks, docs, QueryVector(q), k)
    /\ attempts' = <<>>
    /\ last_error' = None
    /\ mi' = 1
    /\ LET branch == AfterRetrieval(results', configured)
       IN  IF branch = "no_context"
           THEN /\ response' = ChatResponse(NoContextMessage, <<>>, FALSE)
                /\ chatpc' = "responded"
           ELSE IF branch = "passages"
           THEN /\ response' = ChatResponse(PassagesText(results'), Sources(results'), TRUE)
                /\ chatpc' = "responded"
           ELSE /\ response' = response
                /\ chatpc' = "model"
    /\ EmbedQuery(q, TRUE, TRUE)
    /\ UNCHANGED <<configured, chunkVars, storeVars, indexVars, searchVars, peerVars>>

\* vector_search raises (the embedding or the database fails)
ChatRetrieveRaises(q, k) ==
    /\ chatpc \in {"idle", "responded"}
    /\ chatQ' = q
    /\ chatK' = k
    /\ results' = Unbound
    /\ attempts' = <<>>
    /\ last_error' = None
    /\ mi' = 1
    /\ response' = HTTPError(<<"vector_search">>)
    /\ chatpc' = "responded"
    /\ \E api_ok, ctor_ok \in BOOLEAN : EmbedQuery(q, api_ok, ctor_ok)
    /\ UNCHANGED <<configured, chunkVars, storeVars, indexVars, searchVars, peerVars>>

\* one pass of `for model_name in models`, and what follows the loop when it ends
CallModel(o) ==
    /\ chatpc = "model"
    /\ mi <= Len(Models)
    /\ attempts' = Append(attempts, <<Models[mi], o>>)
    /\ IF o = "ok"
       THEN /\ response' = ChatResponse(<<"message.content[0].text">>, Sources(results), TRUE)
            /\ chatpc' = "responded"
            /\ UNCHANGED <<mi, last_error>>
       ELSE /\ last_error' = o
            /\ IF OnModelError(o) = "continue" /\ mi < Len(Models)
               THEN /\ mi' = mi + 1
                    /\ chatpc' = "model"
                    /\ response' = response
               ELSE /\ mi' = mi
                    /\ chatpc' = "responded"
                    /\ response' = HTTPError(<<"All models failed. Last error: ", o>>)
    /\ UNCHANGED <<configured, chatQ, chatK, results>>
    /\ UNCHANGED <<chunkVars, storeVars, indexVars, searchVars, embedVars, peerVars>>

----------------------------------------------------------------------------
(* Initial states and specifications *)

ChunkerIdle ==
    /\ text = <<>>
    /\ target_tokens = DefaultTargetTokens
    /\ overlap = DefaultOverlap
    /\ out = <<>>
    /\ cpc = "idle"

IndexerIdle ==
    /\ pending = {}
    /\ ipc = "idle"
    /\ doc_ids = <<>>
    /\ di = 1
    /\ ichunks = <<>>
    /\ iembs = <<>>
    /\ idx = 0
    /\ runs = 0
    /\ exits = <<>>
    /\ log = <<>>
    /\ snapDocs = <<>>
    /\ snapFiles = <<>>
    /\ snapChunks = {}
    /\ prevSame = FALSE

EmbedIdle ==
    /\ env = EnvShared
    /\ embedding_model = <<>>
    /\ constructed = 0
    /\ lastEmbed = <<>>

\* no second indexer process
PeerOff ==
    [ipc |-> "off", doc_ids |-> <<>>, di |-> 1, ichunks |-> <<>>, iembs |-> <<>>,
     idx |-> 0, pending |-> {}, updates |-> 0]

PeerIdle == peer = PeerOff

StoreEmpty ==
    /\ docs = <<>>
    /\ files = <<>>
    /\ chunks = {}

SearchIdle ==
    /\ searchQ = <<>>
    /\ searchK = 0
    /\ searchRes = <<>>

\* the pipeline: the ingest scripts and one indexer at a time, on empty stores
Init ==
    /\ rawSources = SourcesPipeline
    /\ EmbedIdle
    /\ PeerIdle
    /\ ChunkerIdle
    /\ StoreEmpty
    /\ IndexerIdle
    /\ SearchIdle
    /\ ChatIdle
    /\ configured = TRUE

Next ==
    \/ \E s \in rawSources : CrawlPage(s)
    \/ \E s \in rawSources : TranscribeAudio(s)
    \/ \E s \in rawSources : IngestBook(s)
    \/ StartRun
    \/ Gate
    \/ Load
    \/ Embed
    \/ UpsertExecute
    \/ Commit
    \/ FinishRun
    \/ ReadTextRaises
    \/ EncodeRaises
    \/ ExecuteRaises

Spec == Init /\ [][Next]_vars

\* the ingest scripts alone, over every kind of source
InitIngest ==
    /\ rawSources = SourcesAll
    /\ EmbedIdle
    /\ PeerIdle
    /\ ChunkerIdle
    /\ StoreEmpty
    /\ IndexerIdle
    /\ SearchIdle
    /\ ChatIdle
    /\ configured = TRUE

NextIngest ==
    \/ \E s \in rawSources : CrawlPage(s)
    \/ \E s \in rawSources : TranscribeAudio(s)
    \/ \E s \in rawSources : IngestBook(s)

SpecIngest == InitIngest /\ [][NextIngest]_vars

RECURSIVE IngestAll(_, _, _)
\* the stores after the sources of `order` were ingested one after the other
IngestAll(ds, fs, order) ==
    IF order = <<>> THEN [docs |-> ds, files |-> fs]
    ELSE LET st == IngestOne(ds, fs, Head(order))
         IN  IngestAll(st.docs, st.files, Tail(order))

\* the orders in which the pipeline's sources are ingested before an indexer run
IngestOrders ==
    {o \in UNION {[1..n -> SourcesPipeline] : n \in 0..Cardinality(SourcesPipeline)} :
        \A a, b \in DOMAIN o : a # b => o[a] # o[b]}

\* the stores the pipeline leaves: some sources ingested, then main run to its end
StoresIndexed(order) ==
    /\ docs = IngestAll(<<>>, <<>>, order).docs
    /\ files = IngestAll(<<>>, <<>>, order).files
    /\ chunks = MainLoop({}, files, get_doc_ids(docs), 1)

\* the processed files when, for the documents of `lost`, the open of the text
\* file raised after upsert_doc had committed the row: those have no file
WithoutFiles(fs, lost) == [f \in {g \in DOMAIN fs : g[2] \notin lost} |-> fs[f]]

\* indexer runs over the stores the ingest scripts leave, some documents
\* without a text file
InitIndex ==
    /\ rawSources = SourcesPipeline
    /\ EmbedIdle
    /\ PeerIdle
    /\ ChunkerIdle
    /\ \E order \in IngestOrders :
          \E lost \in SUBSET DocIds(IngestAll(<<>>, <<>>, order).docs) :
              /\ docs = IngestAll(<<>>, <<>>, order).docs
              /\ files = WithoutFiles(IngestAll(<<>>, <<>>, order).files, lost)
    /\ chunks = {}
    /\ IndexerIdle
    /\ SearchIdle
    /\ ChatIdle
    /\ configured = TRUE

NextIndex ==
    \/ StartRun
    \/ Gate
    \/ Load
    \/ Embed
    \/ UpsertExecute
    \/ Commit
    \/ FinishRun
    \/ ReadTextRaises
    \/ EncodeRaises
    \/ ExecuteRaises

SpecIndex == InitIndex /\ [][NextIndex]_vars

\* searches over the stores the pipeline leaves
InitSearch ==
    /\ rawSources = SourcesPipeline
    /\ EmbedIdle
    /\ PeerIdle
    /\ ChunkerIdle
    /\ \E order \in IngestOrders : StoresIndexed(order)
    /\ IndexerIdle
    /\ SearchIdle
    /\ ChatIdle
    /\ configured = TRUE

NextSearch == \E q \in Queries, k \in 0..MaxK : Search(q, k)

SpecSearch == InitSearch /\ [][NextSearch]_vars

\* chat requests over the stores the pipeline leaves
InitChat ==
    /\ rawSources = SourcesPipeline
    /\ EmbedIdle
    /\ PeerIdle
    /\ ChunkerIdle
    /\ \E order \in IngestOrders : StoresIndexed(order)
    /\ IndexerIdle
    /\ SearchIdle
    /\ ChatIdle
    /\ configured \in BOOLEAN

NextChat ==
    \/ \E q \in Queries, k \in 0..MaxK : ChatRetrieve(q, k)
    \/ \E q \in Queries, k \in 0..MaxK : ChatRetrieveRaises(q, k)
    \/ \E o \in Outcomes : CallModel(o)

SpecChat == InitChat /\ [][NextChat]_vars

\* the chunk texts and the chunk lists that callers hand to upsert_chunks
ChunkTexts == {<<"a">>, <<"a", " ", "b">>}
ChunkLists == UNION {[1..n -> ChunkTexts] : n \in 0..MaxChunks}

\* upsert_chunks(conn, doc_id, chunks, embeddings) called on its own, as a
\* forced re-embed does: all its executes and its commit
CallUpsertChunks(doc_id, cks) ==
    /\ ipc = "idle"
    /\ doc_ids' = <<doc_id>>
    /\ di' = 1
    /\ ichunks' = cks
    /\ iembs' = embed_texts(cks)
    /\ idx' = Len(cks)
    /\ chunks' = upsert_chunks(chunks, doc_id, cks, embed_texts(cks))
    /\ pending' = {}
    /\ UNCHANGED <<ipc, runs, exits, log, snapDocs, snapFiles, snapChunks, prevSame>>
    /\ UNCHANGED <<chunkVars, storeVars, searchVars, chatVars, embedVars, peerVars>>

\* calls of upsert_chunks in any sequence for the first document of a store
\* that the indexer has filled, or has not yet run on
InitUpsert ==
    /\ rawSources = SourcesPipeline
    /\ EmbedIdle
    /\ PeerIdle
    /\ ChunkerIdle
    /\ docs = IngestAll(<<>>, <<>>, <<SrcWebMid, SrcPdfLong>>).docs
    /\ files = IngestAll(<<>>, <<>>, <<SrcWebMid, SrcPdfLong>>).files
    /\ chunks \in {{}, MainLoop({}, files, get_doc_ids(docs), 1)}
    /\ IndexerIdle
    /\ SearchIdle
    /\ ChatIdle
    /\ configured = TRUE

NextUpsert == \E cks \in ChunkLists : CallUpsertChunks(docs[1].id, cks)

SpecUpsert == InitUpsert /\ [][NextUpsert]_vars

\* the handler's formatting of the sources, on one retrieved row whose
\* content has any length up to MaxContentChars
InitSource ==
    /\ rawSources = {}
    /\ EmbedIdle
    /\ PeerIdle
    /\ ChunkerIdle
    /\ StoreEmpty
    /\ IndexerIdle
    /\ SearchIdle
    /\ configured = TRUE
    /\ chatpc = "format"
    /\ chatQ = <<"a">>
    /\ chatK = 1
    /\ \E n \in 0..MaxContentChars, t \in {"U1", None} :
          results = <<[content |-> Pattern(n), title |-> t, source_type |-> "web",
                       source_url |-> "u1", score |-> <<UnitScale, UnitScale>>]>>
    /\ mi = 1
    /\ last_error = None
    /\ attempts = <<>>
    /\ response = ChatResponse(<<>>, <<>>, FALSE)

\* sources = [Source(...) for r in results], and the response that carries them
FormatSources ==
    /\ chatpc = "format"
    /\ response' = ChatResponse(<<"message.content[0].text">>, Sources(results), TRUE)
    /\ chatpc' = "responded"
    /\ UNCHANGED <<configured, chatQ, chatK, results, mi, last_error, attempts>>
    /\ UNCHANGED <<chunkVars, storeVars, indexVars, searchVars, embedVars, peerVars>>

NextSource == FormatSources

SpecSource == InitSource /\ [][NextSource]_vars

\* the Document Store when the rows of the documents of `lost` were deleted
\* by hand (no script of the pipeline deletes a row)
WithoutDocs(ds, lost) == SelectSeq(ds, LAMBDA d : d.id \notin lost)

\* chat requests over indexed stores from which document rows were deleted,
\* their chunks left in zen_chunks
InitOrphan ==
    /\ rawSources = SourcesPipeline
    /\ EmbedIdle
    /\ PeerIdle
    /\ ChunkerIdle
    /\ \E lost \in SUBSET DocIds(IngestAll(<<>>, <<>>, <<SrcWebMid, SrcPdfLong>>).docs) :
          LET st == IngestAll(<<>>, <<>>, <<SrcWebMid, SrcPdfLong>>)
          IN  /\ docs = WithoutDocs(st.docs, lost)
              /\ files = st.files
              /\ chunks = MainLoop({}, st.files, get_doc_ids(st.docs), 1)
    /\ IndexerIdle
    /\ SearchIdle
    /\ ChatIdle
    /\ configured \in BOOLEAN

NextOrphan ==
    \/ \E q \in Queries, k \in 0..MaxK : ChatRetrieve(q, k)
    \/ \E q \in Queries, k \in 0..MaxK : ChatRetrieveRaises(q, k)
    \/ \E o \in Outcomes : CallModel(o)

SpecOrphan == InitOrphan /\ [][NextOrphan]_vars

\* two indexer processes over the stores the ingest scripts leave
InitPeers ==
    /\ rawSources = SourcesPipeline
    /\ EmbedIdle
    /\ PeerIdle
    /\ ChunkerIdle
    /\ docs = IngestAll(<<>>, <<>>, <<SrcWebMid, SrcPdfLong>>).docs
    /\ files = IngestAll(<<>>, <<>>, <<SrcWebMid, SrcPdfLong>>).files
    /\ chunks = {}
    /\ IndexerIdle
    /\ SearchIdle
    /\ ChatIdle
    /\ configured = TRUE

NextPeers ==
    \/ StartRun
    \/ Gate
    \/ Load
    \/ Embed
    \/ UpsertExecute
    \/ Commit
    \/ FinishRun
    \/ ExecuteRaises
    \/ PeerStart
    \/ PeerGate
    \/ PeerLoad
    \/ PeerEmbed
    \/ PeerUpsertExecute
    \/ PeerCommit
    \/ PeerFinish

SpecPeers == InitPeers /\ [][NextPeers]_vars

\* calls of get_embedding_vector in one app process, under every environment
InitEmbed ==
    /\ rawSources = {}
    /\ ChunkerIdle
    /\ StoreEmpty
    /\ IndexerIdle
    /\ SearchIdle
    /\ ChatIdle
    /\ PeerIdle
    /\ configured = TRUE
    /\ env \in Environments
    /\ embedding_model = <<>>
    /\ constructed = 0
    /\ lastEmbed = <<>>

NextEmbed == \E q \in Queries, api_ok, ctor_ok \in BOOLEAN : GetEmbeddingVector(q, api_ok, ctor_ok)

SpecEmbed == InitEmbed /\ [][NextEmbed]_vars

----------------------------------------------------------------------------
(* The chunker applied to bounded inputs *)

RECURSIVE SeqsUpTo(_, _)
SeqsUpTo(S, n) ==
    IF n = 0 THEN {<<>>}
    ELSE LET shorter == SeqsUpTo(S, n - 1)
         IN  shorter \cup {Append(s, c) : s \in {x \in shorter : Len(x) = n - 1}, c \in S}

InitChunk ==
    /\ rawSources = {}
    /\ EmbedIdle
    /\ PeerIdle
    /\ StoreEmpty
    /\ IndexerIdle
    /\ SearchIdle
    /\ ChatIdle
    /\ configured = TRUE
    /\ text \in SeqsUpTo(Letters \cup Whitespace, MaxTextLen)
    /\ target_tokens \in 1..MaxTarget
    /\ overlap \in 0..MaxOverlap
    /\ out = <<>>
    /\ cpc = "call"

CallSplit ==
    /\ cpc = "call"
    /\ out' = split_into_chunks(text, target_tokens, overlap)
    /\ cpc' = "returned"
    /\ UNCHANGED <<text, target_tokens, overlap>>
    /\ UNCHANGED <<storeVars, indexVars, searchVars, chatVars, embedVars, peerVars>>

NextChunk == CallSplit

SpecChunk == InitChunk /\ [][NextChunk]_vars

----------------------------------------------------------------------------
(* The chunker's contract, stated on positions of the text *)

\* the positions at which a maximal run of non-whitespace characters starts
RunStarts(s) ==
    {i \in 1..Len(s) : s[i] \notin Whitespace /\ (i = 1 \/ s[i - 1] \in Whitespace)}

\* the last position of the run that starts at i
RunEnd(s, i) ==
    CHOOSE e \in i..Len(s) :
        /\ \A p \in i..e : s[p] \notin Whitespace
        /\ (e = Len(s) \/ s[e + 1] \in Whitespace)

\* the whitespace-split of s: its runs, in the order of their positions
WordsOf(s) ==
    LET starts == RunStarts(s)
        kth(k) == CHOOSE i \in starts : Cardinality({j \in starts : j <= i}) = k
    IN  [k \in 1..Cardinality(starts) |-> SubSeq(s, kth(k), RunEnd(s, kth(k)))]

RECURSIVE SingleSpaced(_)
\* the words written one after the other with one space between neighbours
SingleSpaced(ws) ==
    IF ws = <<>> THEN <<>>
    ELSE IF Len(ws) = 1 THEN ws[1]
    ELSE ws[1] \o <<" ">> \o SingleSpaced(Tail(ws))

LastWords(ws, k) == SubSeq(ws, Len(ws) - k + 1, Len(ws))
FirstWords(ws, k) == SubSeq(ws, 1, k)

\* C1: split_into_chunks returns exactly the windows words[i : i+target_size],
\* joined by single spaces, for i = 0, step, 2*step, ... while i < number of
\* words, with step = max(1, target_size - overlap); the final window is
\* emitted even when short, no chunk is empty, and a text without words
\* yields the empty sequence.
C1_Windows ==
    cpc = "returned" =>
        LET words == WordsOf(text)
            n == Len(words)
            step == IF target_tokens - overlap >= 1 THEN target_tokens - overlap ELSE 1
            count == (n + step - 1) \div step
        IN  /\ Len(out) = count
            /\ \A j \in 1..count :
                  LET i == (j - 1) * step
                      last == IF i + target_tokens <= n THEN i + target_tokens ELSE n
                  IN  /\ out[j] = SingleSpaced(SubSeq(words, i + 1, last))
                      /\ out[j] # <<>>
            /\ (n = 0 => out = <<>>)

\* C1 witness: several windows were returned, the last one shorter than
\* target_size, from a text that holds a run of two whitespace characters.
C1_Witness ==
    /\ cpc = "returned"
    /\ Len(out) >= 2
    /\ Len(WordsOf(out[Len(out)])) < target_tokens
    /\ overlap >= 1
    /\ \E p \in 1..(Len(text) - 1) : text[p] \in Whitespace /\ text[p + 1] \in Whitespace

\* the overlap property of one call, for the chunks it returned
OverlapHolds ==
    \A i \in 1..(Len(out) - 1) :
        LET ci == WordsOf(out[i])
            cn == WordsOf(out[i + 1])
        IN  Len(cn) >= overlap => LastWords(ci, overlap) = FirstWords(cn, overlap)

\* C2 as stated: for every target_size >= 1 and overlap >= 0, whenever the
\* following chunk has at least `overlap` words, the last `overlap` words of a
\* chunk are the first `overlap` words of the following one.
C2_OverlapAlways ==
    cpc = "returned" => OverlapHolds

\* C2 amended: the same, for every overlap other than overlap = target_size
\* (there the step is max(1, 0) = 1 and neighbours are shifted by one word).
C2_OverlapUnlessEqual ==
    (cpc = "returned" /\ overlap # target_tokens) => OverlapHolds

\* C2 witness: two chunks with a real overlap of distinct words.
C2_Witness ==
    /\ cpc = "returned"
    /\ Len(out) >= 2
    /\ overlap >= 1
    /\ overlap < target_tokens
    /\ Len(WordsOf(out[2])) >= overlap
    /\ WordsOf(out[1])[1] # WordsOf(out[1])[Len(WordsOf(out[1]))]

----------------------------------------------------------------------------
(* The indexer run over stores that did not change *)

\* the run in progress, or the last one, is a second or later run; the run
\* before it returned; the Document Store and the processed files are what
\* they were when that run started
C3_Unchanged ==
    /\ runs >= 2
    /\ exits[runs - 1] = "ok"
    /\ prevSame
    /\ docs = snapDocs
    /\ files = snapFiles

\* C3: a second run of the indexer over an unchanged Document Store and
\* unchanged processed files leaves the Chunk Store exactly as the first run
\* left it: it writes no row, and no document that has a chunk gets past the
\* gate.
C3_SecondRunNoChange ==
    C3_Unchanged =>
        /\ chunks = snapChunks
        /\ pending = {}
        /\ ipc \notin {"embed", "upsert"}
        /\ (ipc = "load" => ~(\E r \in chunks : r.doc_id = CurDoc))

\* C3 witness: the second run over unchanged stores has returned, and the
\* store holds the chunks of two documents.
C3_Witness ==
    /\ C3_Unchanged
    /\ ipc = "done"
    /\ Len(exits) = runs
    /\ Cardinality({r.doc_id : r \in chunks}) >= 2

----------------------------------------------------------------------------
(* One document per content hash *)

UniqueHash == \A i, j \in 1..Len(docs) : docs[i].hash = docs[j].hash => i = j

\* every processed file is named by the id of a stored document, and what it
\* holds (when the write went through) has that document's hash
FilesNamedByOwner ==
    \A f \in DOMAIN files :
        \E i \in 1..Len(docs) :
            /\ docs[i].id = f[2]
            /\ (files[f] # <<>> => sha1(files[f]) = docs[i].hash)

\* a step keeps every row as it is and adds at most one row, whose hash is new
RowsKept ==
    /\ Len(docs') \in {Len(docs), Len(docs) + 1}
    /\ SubSeq(docs', 1, Len(docs)) = docs
    /\ (Len(docs') = Len(docs) + 1 =>
            \A i \in 1..Len(docs) : docs[i].hash # docs'[Len(docs')].hash)

\* C4: after any sequence of ingest operations the Document Store holds at
\* most one document per content hash; ingesting text whose hash is already
\* stored returns the stored document's id (the text file is written under
\* that id), inserts no row and leaves the stored row as it is.
C4_OneDocPerHash == [](UniqueHash /\ FilesNamedByOwner) /\ [][RowsKept]_vars

\* C4 witness: the same text came in as a transcript first and as a web page
\* after it; there is one row for it, the transcript's, and both files carry
\* its id.
C4_Witness ==
    \E i \in 1..Len(docs) :
        /\ docs[i].hash = sha1(TextMid)
        /\ docs[i].source_type = "audio"
        /\ \A d \in {"web", "audio"} : <<d, docs[i].id>> \in DOMAIN files
        /\ \A j \in 1..Len(docs) : docs[j].hash = docs[i].hash => j = i

----------------------------------------------------------------------------
(* The retriever's contract *)

\* a search call has returned
Searched == searchQ # <<>>

\* C5: search(q, k) returns exactly min(k, N) rows, N the number of stored
\* chunks, for every k >= 0; on an empty store it returns no row.
C5_MinKN ==
    Searched => Len(searchRes) = Min(searchK, Cardinality(chunks))

\* C5 witness: a search whose k is positive and below the number of chunks.
C5_Witness ==
    /\ Searched
    /\ searchK >= 1
    /\ searchK < Cardinality(chunks)
    /\ Len(searchRes) = searchK

ScoreGT(x, y) == ~ScoreGE(y, x)

\* the scores of the stored chunks against the vector of the last query
StoredScores == {<<c.id, Score(c.embedding, QueryVector(searchQ))>> : c \in chunks}

\* the rows are rows of the store, and for every score v as many of them lie
\* above v as the store allows: the rows returned are the highest-scoring ones
TopScoring ==
    LET qv == QueryVector(searchQ)
        n == Len(searchRes)
        marks == {p[2] : p \in StoredScores} \cup {searchRes[a].score : a \in 1..n}
    IN  /\ \A a \in 1..n :
              \E j \in Joined(chunks, docs) : searchRes[a] = ResultRow(docs, j, qv)
        /\ \A v \in marks :
              Cardinality({a \in 1..n : ScoreGT(searchRes[a].score, v)})
                = Min(n, Cardinality({p \in StoredScores : ScoreGT(p[2], v)}))

\* C6: the stored vectors are unit-normalized, and the rows search returns
\* are in non-increasing order of score and are the k highest-scoring chunks.
C6_Ranked ==
    Searched =>
        /\ \A c \in chunks : Norm(c.embedding) = UnitScale
        /\ \A a, b \in 1..Len(searchRes) :
              a < b => ScoreGE(searchRes[a].score, searchRes[b].score)
        /\ TopScoring

\* C6 witness: two rows of different score returned out of three chunks.
C6_Witness ==
    /\ Searched
    /\ Cardinality(chunks) = 3
    /\ Len(searchRes) = 2
    /\ ScoreGT(searchRes[1].score, searchRes[2].score)

----------------------------------------------------------------------------
(* The model loop of the chat handler *)

\* C7 as stated: the secondary model is attempted only when the primary
\* failed with an overloaded or a not-found error; any other failure
\* surfaces without another model being tried.
C7_SecondaryOnlyOnOverloadOrNotFound ==
    Len(attempts) >= 2 => attempts[1][2] \in {"overloaded", "not_found"}

----------------------------------------------------------------------------
(* Failures inside an indexer run *)

\* the document has a processed text long enough to be chunked, and no chunk
Unprocessed(doc_id) ==
    /\ Len(load_text_for_id(files, doc_id)) >= MinIndexChars
    /\ ~(\E r \in chunks : r.doc_id = doc_id)

\* C8 as stated: when the text file of a document cannot be read, or the
\* embedding call raises, the failure is caught and the run continues: no run
\* ends on such a failure with a later document of its list left unindexed
\* that has eligible text.
C8_RunContinues ==
    (ipc = "aborted" /\ exits[Len(exits)] \in {"read_text", "encode"}) =>
        \A j \in (di + 1)..Len(doc_ids) : ~Unprocessed(doc_ids[j])

----------------------------------------------------------------------------
(* What a reader of the Chunk Store sees while the indexer writes *)

\* C9: a search on another connection never sees part of a document's chunks:
\* the committed rows of a document are none, or all of them (indices 0..n-1,
\* n the number of chunks of its text, as the run printed it).
C9_AllOrNothing ==
    \A d \in DocIds(docs) :
        LET rows == {r \in chunks : r.doc_id = d}
        IN  rows = {} \/
            \E e \in 1..Len(log) :
                /\ log[e][1] = d
                /\ log[e][2] = Cardinality(rows)
                /\ {r.chunk_index : r \in rows} = 0..(log[e][2] - 1)
                /\ log[e][2] = Len(split_into_chunks(load_text_for_id(files, d),
                                                     DefaultTargetTokens, DefaultOverlap))

\* C9 witness: the first of two chunks of a document is written and not
\* committed; a reader sees no chunk of that document.
C9_Witness ==
    /\ ipc = "upsert"
    /\ Len(ichunks) = 2
    /\ idx = 1
    /\ Cardinality(pending) = 1
    /\ ~(\E r \in chunks : r.doc_id = CurDoc)

----------------------------------------------------------------------------
(* The chat handler when retrieval finds nothing *)

\* C10: when retrieval returns no chunk the chat response is the fixed
\* no-context message with sources = [] and context_used = false, and no
\* model call is made.
C10_NoContext ==
    (chatpc = "responded" /\ results = <<>>) =>
        /\ response = ChatResponse(NoContextMessage, <<>>, FALSE)
        /\ attempts = <<>>

\* C10 witness: a request with k >= 1 found nothing, claude_client not set.
C10_Witness ==
    /\ chatpc = "responded"
    /\ results = <<>>
    /\ chatK >= 1
    /\ ~configured
    /\ response.response = NoContextMessage

----------------------------------------------------------------------------
(* The chat handler without a language-model client *)

\* the first position at or after `from` where `part` lies in t, 0 when none
FindFrom(t, part, from) ==
    LET hits == {p \in from..(Len(t) - Len(part) + 1) : SubSeq(t, p, p + Len(part) - 1) = part}
    IN  IF hits = {} THEN 0 ELSE CHOOSE p \in hits : \A q \in hits : p <= q

RECURSIVE ContainsInOrder(_, _, _)
\* the parts lie in t one after the other, without overlapping, from `from` on
ContainsInOrder(t, parts, from) ==
    IF parts = <<>> THEN TRUE
    ELSE LET p == FindFrom(t, Head(parts), from)
         IN  p # 0 /\ ContainsInOrder(t, Tail(parts), p + Len(Head(parts)))

\* a request found n >= 1 chunks with claude_client not set, and chat is over
PassagesCase ==
    /\ chatpc = "responded"
    /\ ~configured
    /\ results # Unbound
    /\ Len(results) >= 1

\* the response is no error, says context_used, and no model was called
PassagesReturned ==
    /\ response.status = 200
    /\ response.context_used = TRUE
    /\ attempts = <<>>

\* C11 as stated: with n >= 1 chunks retrieved and no client configured, chat
\* returns without error, with context_used = true and no model call, a text
\* that contains verbatim and in retrieval order the content of the first
\* min(3, n) retrieved passages.
C11_PassagesVerbatim ==
    PassagesCase =>
        /\ PassagesReturned
        /\ ContainsInOrder(response.response,
                           [i \in 1..Min(3, Len(results)) |-> results[i].content], 1)

\* C11 amended: the same, the text containing of each of the first min(3, n)
\* passages its first 200 characters (all of it when it is no longer),
\* followed by "...".
C11_PassagesFirst200 ==
    PassagesCase =>
        /\ PassagesReturned
        /\ ContainsInOrder(response.response,
                           [i \in 1..Min(3, Len(results)) |->
                               SubSeq(results[i].content, 1, Min(200, Len(results[i].content)))
                               \o <<".", ".", ".">>], 1)

\* C11 witness: three passages came back, one of them no longer than 200
\* characters and one longer, and the text was returned.
C11_Witness ==
    /\ PassagesCase
    /\ Len(results) = 3
    /\ \E i \in 1..3 : Len(results[i].content) <= 200
    /\ \E i \in 1..3 : Len(results[i].content) > 200
    /\ response.status = 200

----------------------------------------------------------------------------
(* The sources of a chat response *)

\* a request found n >= 1 chunks and chat returned a ChatResponse
AnsweredWithContext ==
    /\ chatpc = "responded"
    /\ results # Unbound
    /\ Len(results) >= 1
    /\ response.status = 200

\* the source is made of the row: its score, kind and url as retrieved, its
\* content starting as the row's content starts
SourceOf(src, r) ==
    /\ src.score = r.score
    /\ src.source_type = r.source_type
    /\ src.source_url = r.source_url
    /\ \A p \in 1..Min(Len(r.content), Len(src.content) - 3) : src.content[p] = r.content[p]
    /\ Len(src.content) >= Min(Len(r.content), 3)

\* C12: whenever retrieval returns n >= 1 chunks and chat returns
\* successfully, sources has exactly n entries, one per retrieved chunk in
\* retrieval order, none filtered out by its score, and context_used = true.
C12_OneSourcePerChunk ==
    AnsweredWithContext =>
        /\ Len(response.sources) = Len(results)
        /\ \A i \in 1..Len(results) : SourceOf(response.sources[i], results[i])
        /\ response.context_used = TRUE

\* C12 witness: a request with k = 3 against a store of one chunk was
\* answered by a model with exactly one source.
C12_Witness ==
    /\ AnsweredWithContext
    /\ chatK = 3
    /\ Cardinality(chunks) = 1
    /\ Len(response.sources) = 1
    /\ attempts # <<>>

----------------------------------------------------------------------------
(* The minimum length of a stored document's text *)

\* the text an ingest script extracts from a source before it stores it
ExtractedText(s) == IF s.kind = "audio" THEN Strip(s.text) ELSE s.text

\* C13 as stated: after any sequence of ingest operations through any path,
\* every document row stands for extracted text at least as long as the
\* 400-character floor; a source with shorter text gets no row.
C13_EveryDocAboveFloor ==
    \A i \in 1..Len(docs) :
        \A s \in rawSources :
            docs[i].hash = sha1(ExtractedText(s)) => Len(ExtractedText(s)) >= MinIndexChars

----------------------------------------------------------------------------
(* Documents the indexer passes over *)

\* the document has a text file in one of the processed directories
HasFile(doc_id) == \E dir \in {"web", "audio", "books"} : <<dir, doc_id>> \in DOMAIN files

\* the text the indexer gets for the document is below the floor (an absent
\* file gives the empty text)
BelowFloor(doc_id) == Len(load_text_for_id(files, doc_id)) < MinIndexChars

\* the indexer leaves "load" for a document below the floor, and the step is
\* not a failed read of a file that is there
StepOverShort ==
    /\ ipc = "load"
    /\ ipc' # "load"
    /\ BelowFloor(CurDoc)
    /\ ~(HasFile(CurDoc) /\ exits' = Append(exits, "read_text"))

\* the step goes on to the next document: no row, no exception, no output
SilentSkip ==
    /\ ipc' = "gate"
    /\ di' = di + 1
    /\ chunks' = chunks
    /\ pending' = pending
    /\ exits' = exits
    /\ log' = log

\* C14: in an indexer run a document whose text file is in no processed
\* directory, or whose text is shorter than 400 characters, is skipped
\* silently: it gets no chunk row, no error is raised, and the run goes on
\* to the next document.
C14_ShortOrAbsentSkipped ==
    /\ [](\A d \in DocIds(docs) :
            BelowFloor(d) => ~(\E r \in chunks \cup pending : r.doc_id = d))
    /\ [][StepOverShort => SilentSkip]_vars

\* C14 witness: a run has returned that passed over a document without a
\* file and a document with a short text, and indexed a third one.
C14_Witness ==
    /\ ipc = "done"
    /\ exits = <<"ok">>
    /\ \E d \in DocIds(docs) : ~HasFile(d)
    /\ \E d \in DocIds(docs) : HasFile(d) /\ BelowFloor(d)
    /\ log # <<>>

----------------------------------------------------------------------------
(* The order and the end of the model attempts *)

\* a request found at least one chunk, claude_client is set, and the handler
\* is in the model loop or past it
ModelCase ==
    /\ configured
    /\ chatpc \in {"model", "responded"}
    /\ results # Unbound
    /\ results # <<>>

AllFailed == \A i \in 1..Len(attempts) : attempts[i][2] # "ok"

\* C15: with at least one chunk retrieved and the client configured, the
\* models are attempted in the order primary, secondary; a successful call
\* ends the attempts and gives a response with context_used = true; the
\* request fails, as an HTTP 500 response that carries the error detail,
\* exactly when every attempted model has failed.
C15_AttemptsInOrder ==
    ModelCase =>
        /\ Len(attempts) <= 2
        /\ (Len(attempts) >= 1 => attempts[1][1] = "claude-sonnet-4-20250514")
        /\ (Len(attempts) >= 2 => attempts[2][1] = "claude-3-haiku-20240307")
        /\ \A i \in 1..(Len(attempts) - 1) : attempts[i][2] # "ok"
        /\ (chatpc = "model" => AllFailed)
        /\ (chatpc = "responded" =>
              /\ attempts # <<>>
              /\ (response.status = 500 <=> AllFailed)
              /\ (~AllFailed =>
                    /\ response.status = 200
                    /\ response.context_used = TRUE
                    /\ Len(response.sources) = Len(results))
              /\ (AllFailed =>
                    /\ response.detail[1] = "Error processing chat request: "
                    /\ response.detail[Len(response.detail)] = attempts[Len(attempts)][2]))

\* C15 witness: the primary failed, the secondary answered, the response is
\* a success.
C15_Witness ==
    /\ ModelCase
    /\ chatpc = "responded"
    /\ Len(attempts) = 2
    /\ attempts[1][2] = "overloaded"
    /\ attempts[2][2] = "ok"
    /\ response.status = 200

----------------------------------------------------------------------------
(* The content of a source *)

\* C16: in every chat response each source's content is the retrieved
\* chunk's content when that has at most 300 characters, and otherwise its
\* first 300 characters followed by "..."; no source content is longer than
\* 303 characters.
C16_SourceContentCut ==
    (chatpc = "responded" /\ response.status = 200 /\ results # Unbound) =>
        \A i \in 1..Len(response.sources) :
            LET c == results[i].content
                sc == response.sources[i].content
            IN  /\ (Len(c) <= 300 => sc = c)
                /\ (Len(c) > 300 => sc = SubSeq(c, 1, 300) \o <<".", ".", ".">>)
                /\ Len(sc) <= 303

\* C16 witness: a chunk of 301 characters became a source of 303.
C16_Witness ==
    /\ chatpc = "responded"
    /\ Len(response.sources) = 1
    /\ Len(results[1].content) = 301
    /\ Len(response.sources[1].content) = 303

----------------------------------------------------------------------------
(* The size of the chunks before the last *)

\* every chunk but the last has exactly target_size words
OnlyLastShort ==
    \A i \in 1..(Len(out) - 1) : Len(WordsOf(out[i])) = target_tokens

\* C17 as stated: for every text, every target_size >= 1 and overlap >= 0,
\* every chunk returned other than the last has exactly target_size words.
C17_OnlyLastShortAlways ==
    cpc = "returned" => OnlyLastShort

\* C17 amended: the same for overlap <= 1 or target_size <= 2; otherwise
\* (step smaller than target_size - 1) several windows start within the last
\* target_size - 1 words and each of them is short.
C17_OnlyLastShortSmallOverlap ==
    (cpc = "returned" /\ (overlap <= 1 \/ target_tokens <= 2)) => OnlyLastShort

\* C17 witness: three chunks with overlap 1, the first two of target_size
\* words and the last one shorter.
C17_Witness ==
    /\ cpc = "returned"
    /\ overlap = 1
    /\ target_tokens >= 2
    /\ Len(out) >= 3
    /\ Len(WordsOf(out[Len(out)])) < target_tokens
    /\ Len(WordsOf(out[1])) = target_tokens

----------------------------------------------------------------------------
(* The token count of a stored chunk *)

\* C18 as stated: in every state of the Chunk Store, after any sequence of
\* upsert_chunks calls (re-upserts that overwrite rows with other content
\* included), each chunk's token_count is the number of whitespace-delimited
\* words of its current content.
C18_TokenCountCurrent ==
    \A r \in chunks : r.token_count = Len(WordsOf(r.content))

----------------------------------------------------------------------------
(* What one call of upsert_chunks changes *)

\* the row is outside the call's reach: of another document, or at an index
\* the call's list does not have
Untouched(r, doc_id, cks) == r.doc_id # doc_id \/ r.chunk_index >= Len(cks)

\* the store after the call holds for (doc_id, i) one row with the call's
\* content and embedding: the row that was there with the rest of it as it
\* was, or else a new row under an id no row had
RowWritten(before, after, doc_id, i, content, emb) ==
    LET old == {r \in before : r.doc_id = doc_id /\ r.chunk_index = i}
        new == {r \in after : r.doc_id = doc_id /\ r.chunk_index = i}
    IN  /\ Cardinality(new) = 1
        /\ \A w \in new :
              /\ w.content = content
              /\ w.embedding = emb
              /\ \A r \in old :
                    /\ w.id = r.id
                    /\ w.token_count = r.token_count
                    /\ w.section = r.section
                    /\ w.metadata = r.metadata
              /\ (old = {} => w.id \notin {r.id : r \in before})

\* C19: upsert_chunks(doc, chunks, embeddings) changes only the rows (doc, i)
\* for 0 <= i < len(chunks): a missing row is inserted, of an existing row
\* only content and embedding are overwritten (identifier, token_count,
\* section and metadata stay), and every row of doc at an index >=
\* len(chunks) and every row of another document is left as it was.
C19_UpsertFrame ==
    [][LET d == doc_ids'[1]
           cks == ichunks'
       IN  /\ \A r \in chunks : Untouched(r, d, cks) => r \in chunks'
           /\ \A r \in chunks' : Untouched(r, d, cks) => r \in chunks
           /\ \A i \in 0..(Len(cks) - 1) :
                 RowWritten(chunks, chunks', d, i, cks[i + 1], iembs'[i + 1])
      ]_vars

\* C19 witness: a call with one chunk has overwritten the content of row 0
\* of a document that has a row 1, in a store with rows of another document;
\* row 0 still has the token count of the content it had before.
C19_Witness ==
    /\ Len(ichunks) = 1
    /\ \E r \in chunks : r.doc_id # doc_ids[1]
    /\ \E r \in chunks : r.doc_id = doc_ids[1] /\ r.chunk_index = 1
    /\ \E r \in chunks :
          /\ r.doc_id = doc_ids[1]
          /\ r.chunk_index = 0
          /\ r.content = ichunks[1]
          /\ r.token_count # Len(WordsOf(r.content))

----------------------------------------------------------------------------
(* Chunk indices and reading order *)

\* the committed rows of the document
RowsOf(d) == {r \in chunks : r.doc_id = d}

\* the windows split_into_chunks gives for the document's text
WindowsOf(d) ==
    split_into_chunks(load_text_for_id(files, d), DefaultTargetTokens, DefaultOverlap)

\* C20: in every state of the Chunk Store the chunk indices of each document
\* are exactly 0..n-1 for some n, each (document, index) pair occurs once,
\* and the chunk at index i holds the i-th window that split_into_chunks
\* produces for the document's text.
C20_IndexIsReadingOrder ==
    \A d \in DocIds(docs) :
        LET n == Cardinality(RowsOf(d))
        IN  /\ {r.chunk_index : r \in RowsOf(d)} = 0..(n - 1)
            /\ n > 0 => /\ n = Len(WindowsOf(d))
                        /\ \A r \in RowsOf(d) :
                              r.content = WindowsOf(d)[r.chunk_index + 1]

\* C20 witness: a document has two committed chunks, of different content,
\* and another document has one.
C20_Witness ==
    /\ \E d \in DocIds(docs) :
          /\ Cardinality(RowsOf(d)) = 2
          /\ \A r, q \in RowsOf(d) : r.content = q.content => r = q
    /\ \E d \in DocIds(docs) : Cardinality(RowsOf(d)) = 1

----------------------------------------------------------------------------
(* The embedding space of the query and of the index *)

\* the last call of get_embedding_vector returned a vector
Embedded == lastEmbed # <<>> /\ ~lastEmbed[1].raised

\* C21: every query vector that get_embedding_vector hands to vector_search
\* comes from the provider and model that embedded the stored chunks, under
\* every environment and also after the API call failed.
C21_SameEmbeddingSpace ==
    Embedded => lastEmbed[1].space = <<IndexSpace(env)>>

----------------------------------------------------------------------------
(* The cached embedding model *)

\* the last call of get_embedding_vector used the local model and returned
UsedLocalModel == Embedded /\ lastEmbed[1].local

----------------------------------------------------------------------------
(* Chunks whose document row is missing *)

\* the chunks whose parent document is not in the Document Store
Orphans == {c \in chunks : c.doc_id \notin DocIds(docs)}

\* vector_search returned its rows for a k that no chunk of the store exceeds
SearchedAllChunks == results # Unbound /\ chatK >= Cardinality(chunks)

\* C22: a search that meets a chunk whose parent document is missing fails;
\* vector_search never returns a row list from which that chunk was left out.
C22_MissingParentIsFatal ==
    SearchedAllChunks => Orphans = {}

----------------------------------------------------------------------------
(* The chunks cover the text *)

\* step = max(1, approx - overlap) of the call
StepOf == IF target_tokens - overlap >= 1 THEN target_tokens - overlap ELSE 1

RECURSIVE Concat(_)
\* the sequences of a sequence, one after the other
Concat(ss) == IF ss = <<>> THEN <<>> ELSE Head(ss) \o Concat(Tail(ss))

\* the first step words of every chunk but the last, one after the other
HeadsOfChunks ==
    Concat([j \in 1..(Len(out) - 1) |->
               FirstWords(WordsOf(out[j]), Min(StepOf, Len(WordsOf(out[j]))))])

\* the words of the last chunk that HeadsOfChunks does not hold already: the
\* last chunk starts at word (Len(out) - 1) * step of the text
TailOfLastChunk ==
    LET ws == WordsOf(out[Len(out)])
        start == (Len(out) - 1) * StepOf
    IN  SubSeq(ws, Len(HeadsOfChunks) - start + 1, Len(ws))

Reconstructed == IF out = <<>> THEN <<>> ELSE HeadsOfChunks \o TailOfLastChunk

\* C25: for every text, target_size >= 1 and overlap >= 0 the chunks cover the
\* text without loss: every word of the text is in some chunk at its own
\* position (chunk j starts at word j * step), and the first step words of
\* every chunk but the last followed by the rest of the last chunk are the
\* words of the text.
C25_ChunksCoverText ==
    cpc = "returned" =>
        LET words == WordsOf(text)
        IN  /\ \A p \in 1..Len(words) :
                  \E j \in 1..Len(out) :
                      LET off == p - (j - 1) * StepOf
                      IN  /\ off \in 1..Len(WordsOf(out[j]))
                          /\ WordsOf(out[j])[off] = words[p]
            /\ Reconstructed = words

\* C25 witness: three words, not all the same, in three chunks that overlap
\* by two words, the last chunk lying within the one before it.
C25_Witness ==
    /\ cpc = "returned"
    /\ target_tokens = 3
    /\ overlap = 2
    /\ Len(out) = 3
    /\ \E p, q \in 1..Len(WordsOf(text)) : WordsOf(text)[p] # WordsOf(text)[q]
    /\ Reconstructed = WordsOf(text)

----------------------------------------------------------------------------
(* Two indexer processes *)

\* what a chunk row holds besides its id and the columns no run sets
RowContents(rows) ==
    {[doc_id |-> r.doc_id, chunk_index |-> r.chunk_index, content |-> r.content,
      embedding |-> r.embedding] : r \in rows}

\* both processes have ended, the second one at the end of its loop
BothEnded == ipc \in {"done", "aborted"} /\ peer.ipc = "done"

\* each process waits for a row the other has written
BothWait ==
    /\ ipc = "upsert" /\ idx < Len(ichunks) /\ LockHeld(peer.pending, CurDoc, idx)
    /\ peer.ipc = "upsert" /\ peer.idx < Len(peer.ichunks)
    /\ LockHeld(pending, PeerDoc, peer.idx)

\* C24: when two indexer processes run over the same Document Store, and so
\* also when both pass the already_chunked gate for a document before either
\* commits, the Chunk Store never holds two rows of one (document, chunk
\* index), the processes never wait for each other, and once both have ended
\* the store holds for every document the indices, contents and embeddings
\* that a single run leaves.
C24_ConcurrentRunsAgree ==
    /\ \A r, q \in chunks : SameKey(r, q) => r = q
    /\ ~BothWait
    /\ BothEnded =>
          RowContents(chunks) = RowContents(MainLoop({}, files, get_doc_ids(docs), 1))

\* C24 witness: both processes have ended, the second one after it had passed
\* the gate for a document whose rows the first one committed before the
\* second one's executes, which then updated them.
C24_Witness ==
    /\ BothEnded
    /\ ipc = "done"
    /\ peer.updates >= 2
    /\ Len(log) >= 1
    /\ Cardinality(chunks) = 3

====
